---- MODULE Spec2Model ----
(***************************************************************************)
(* Model of the image-classification service: backend/app.py (startup,     *)
(* label store, model loader, inference engine, HTTP handlers) and         *)
(* backend/database.py (the History Store over one psycopg2 connection).   *)
(*                                                                         *)
(* Every HTTP handler is one atomic action (the request/response cycle is  *)
(* synchronous); the PostgreSQL server and the files on disk are the       *)
(* environment.                                                            *)
(***************************************************************************)
EXTENDS Integers, Sequences, FiniteSets, TLC

VARIABLES
    pc,            \* position in the __main__ block
    env,           \* files on disk and the installed libraries: fixed at Init
    model,         \* global `model`
    class_labels,  \* global `class_labels`
    num_classes,   \* global `num_classes`
    conn,          \* db.conn: None or the psycopg2 connection
    pg,            \* the PostgreSQL server: reachability, clock, table, SERIAL
    request,       \* the request handled last (its inputs)
    response,      \* the response delivered last
    calls,         \* the functions the last handler went through, in order
    exit_code      \* the status the process exited with (None while alive)

vars == <<pc, env, model, class_labels, num_classes, conn, pg, request,
          response, calls, exit_code>>

-----------------------------------------------------------------------------
(* Bounds of the model *)

\* the server clock stops the exploration here (one tick per committed insert)
MaxNow == 2
\* one single-precision step, counted in double-precision steps
SingleStep == 4

(* Program constants *)

MAX_IMAGE_SIZE == 10 * 1024 * 1024
DEFAULT_NUM_CLASSES == 1000
DEFAULT_TOP_K == 5
DEFAULT_LIMIT == 50
DEFAULT_OFFSET == 0

\* Python's None, for the globals that hold an object or a list
None == [none |-> TRUE]
\* Python's None for the integer global num_classes
NoneInt == -1

-----------------------------------------------------------------------------
(* Sequence helpers *)

Reverse(s) == [i \in 1..Len(s) |-> s[Len(s) + 1 - i]]

Min(a, b) == IF a < b THEN a ELSE b
Max(a, b) == IF a > b THEN a ELSE b

\* Python's s[start:] for any integer start
PySliceFrom(s, start) ==
    LET n == Len(s)
        b == IF start < 0 THEN Max(0, n + start) ELSE Min(start, n)
    IN  SubSeq(s, b + 1, n)

-----------------------------------------------------------------------------
(* Label Store *)

\* f"Class {i}"
ClassName(i) == "Class " \o ToString(i)

\* [f"Class {i}" for i in range(n)]
SynthLabels(n) == [i \in 1..n |-> ClassName(i - 1)]

\* load_labels(): the new (class_labels, num_classes)
load_labels(file, nc) ==
    IF file.kind = "list"
    THEN \* the file exists and json.load succeeds
         [class_labels |-> file.names, num_classes |-> Len(file.names)]
    ELSE \* no file (else branch) or json.load raises (except branch)
         LET n == IF nc = NoneInt THEN DEFAULT_NUM_CLASSES ELSE nc
         IN  [class_labels |-> SynthLabels(n), num_classes |-> n]

-----------------------------------------------------------------------------
(* Model Loader *)

\* torch.load(MODEL_PATH, weights_only=True): "raise" or the loaded object.
\* A missing or unreadable file raises; so does a pickled nn.Module, which
\* the weights-only unpickler refuses.
TorchLoad(ckpt) ==
    IF ckpt.kind \in {"missing", "module"} THEN [kind |-> "raise"] ELSE ckpt

\* lines 118-148: the class count when num_classes is still None
InferNumClasses(ckpt, nc) ==
    IF nc # NoneInt THEN nc
    ELSE LET saved == TorchLoad(ckpt)
         IN  IF saved.kind = "raise" THEN DEFAULT_NUM_CLASSES
             ELSE IF saved.kind \in {"plain", "wrapped"} /\ saved.cls_first > 0
                  THEN saved.cls_first
                  ELSE DEFAULT_NUM_CLASSES

\* model.load_state_dict(state_dict) is strict: shapes must agree
StateDictFits(ckpt, out) == ckpt.out = out

\* load_model(): [ret, model, num_classes]
load_model(e, m, nc) ==
    IF ~e.arch_ok
    THEN \* models.mobilenet_v3_small raises: outer except
         [ret |-> FALSE, model |-> m, num_classes |-> nc]
    ELSE LET nc1    == InferNumClasses(e.checkpoint, nc)
             \* the last nn.Linear of model.classifier is replaced
             fresh  == [out |-> nc1, weights |-> "initialized"]
             loaded == TorchLoad(e.checkpoint)
         IN  IF loaded.kind = "raise"
             THEN [ret |-> FALSE, model |-> fresh, num_classes |-> nc1]
             ELSE IF loaded.kind \in {"plain", "wrapped"}
             THEN IF StateDictFits(loaded, fresh.out)
                  THEN [ret |-> TRUE,
                        model |-> [out |-> nc1, weights |-> "checkpoint"],
                        num_classes |-> nc1]
                  ELSE [ret |-> FALSE, model |-> fresh, num_classes |-> nc1]
             ELSE IF loaded.kind = "module"
             THEN \* `model = loaded` (no torch.load above returns a module)
                  [ret |-> TRUE,
                   model |-> [out |-> loaded.out, weights |-> "checkpoint"],
                    num_classes |-> nc1]
             ELSE \* format not recognized: proceed with the initialized model
                  [ret |-> TRUE, model |-> fresh, num_classes |-> nc1]

-----------------------------------------------------------------------------
(* Inference Engine *)

\* Python floats are counted in double-precision steps; a single-precision
\* number (a softmax output, a REAL column) is a multiple of SingleStep.

\* nn.functional.softmax(model(image_tensor), dim=1).cpu().numpy()[0]: the
\* network is opaque, so the image names the probabilities it produces, one
\* float32 per output unit of the final layer.
Softmax(image, out) ==
    [i \in 1..out |->
        image.pattern[((i - 1) % Len(image.pattern)) + 1] * SingleStep]

\* the indices (0-based) holding value v, in the order the sort leaves them
TiedGroup(probs, v, sort_ties) ==
    LET idx == [i \in 1..Len(probs) |-> i - 1]
        g   == SelectSeq(idx, LAMBDA j : probs[j + 1] = v)
    IN  IF sort_ties = "by_index" THEN g ELSE Reverse(g)

RECURSIVE ArgsortLevels(_, _, _)
ArgsortLevels(probs, levels, sort_ties) ==
    IF levels = {} THEN <<>>
    ELSE LET v == CHOOSE x \in levels : \A y \in levels : x <= y
         IN  TiedGroup(probs, v, sort_ties)
                 \o ArgsortLevels(probs, levels \ {v}, sort_ties)

\* np.argsort(probs): ascending by value. The default kind is quicksort,
\* which is not stable: sort_ties names the order the installed numpy leaves
\* equal values in.
argsort(probs, sort_ties) ==
    ArgsortLevels(probs, {probs[i] : i \in 1..Len(probs)}, sort_ties)

\* class_labels[idx] if class_labels and idx < len(class_labels)
\* else f"Class {idx}"
LabelOf(labels, idx) ==
    IF labels # None /\ Len(labels) > 0 /\ idx < Len(labels)
    THEN labels[idx + 1]
    ELSE ClassName(idx)

\* mutant: the slice is not reversed
TopIndicesAscending(probs, top_k, sort_ties) ==
    PySliceFrom(argsort(probs, sort_ties), 0 - top_k)

\* np.argsort(probs)[-top_k:][::-1]
TopIndices(probs, top_k, sort_ties) ==
    Reverse(PySliceFrom(argsort(probs, sort_ties), 0 - top_k))

\* predict(image_tensor, top_k): the result dict; never raises
predict(m, labels, nc, image, top_k, sort_ties) ==
    IF m = None
    THEN [success |-> FALSE, error |-> "Model not loaded"]
    ELSE IF image.fwd_raises
    THEN [success |-> FALSE, error |-> "forward pass failed"]
    ELSE LET probs       == Softmax(image, m.out)
             top_indices == TopIndices(probs, top_k, sort_ties)
         IN  [success     |-> TRUE,
              predictions |->
                  [j \in 1..Len(top_indices) |->
                      [class_id   |-> top_indices[j],
                       label      |-> LabelOf(labels, top_indices[j]),
                       \* float(score) widens the float32 exactly
                       confidence |-> probs[top_indices[j] + 1]]],
              model_info  |-> [num_classes |-> nc]]

-----------------------------------------------------------------------------
(* psycopg2 connection and the PostgreSQL server *)

\* psycopg2.connect(...) on a reachable server: a live connection, no
\* transaction open
NewConnection == [alive |-> TRUE, status |-> "idle", txn_start |-> 0]

\* cursor.execute(stmt): raises on a dead connection and inside an aborted
\* transaction; otherwise opens a transaction if none is open (psycopg2 is
\* not in autocommit mode) and runs the statement, which aborts the
\* transaction when the server rejects it (valid = FALSE).
\* [raised, conn]
Execute(c, p, valid) ==
    IF ~c.alive \/ c.status = "inerror"
    THEN [raised |-> TRUE, conn |-> c]
    ELSE LET c1 == IF c.status = "idle"
                   THEN [c EXCEPT !.status = "intrans", !.txn_start = p.now]
                   ELSE c
         IN  IF valid
             THEN [raised |-> FALSE, conn |-> c1]
             ELSE [raised |-> TRUE, conn |-> [c1 EXCEPT !.status = "inerror"]]

\* the transaction is over
EndTransaction(c) == [c EXCEPT !.status = "idle", !.txn_start = 0]

\* conn.commit() after a statement that succeeded
Commit(c) == EndTransaction(c)

\* conn.rollback() inside try/except: ends the transaction on a live
\* connection, raises (swallowed) on a dead one
Rollback(c) == IF c.alive THEN EndTransaction(c) ELSE c

\* json.dumps(top_5) into the JSONB column
JsonDumps(x) == [json |-> x]
\* psycopg2 hands a JSONB value back parsed; a str would go through json.loads
JsonLoads(v) == v.json

\* the REAL column keeps single precision: round to the nearest single
PgReal(x) == ((x + (SingleStep \div 2)) \div SingleStep) * SingleStep

\* datetime.isoformat()
IsoFormat(t) == "T" \o ToString(t)

\* Database.connect(): [ret, conn, pg, calls]
connect(c, p, tr) ==
    LET tr1 == Append(tr, "connect")
    IN  IF ~p.up
        THEN \* psycopg2.connect raises: self.conn keeps its old value
             [ret |-> FALSE, conn |-> c, pg |-> p, calls |-> tr1]
        ELSE \* _ensure_table(): CREATE TABLE IF NOT EXISTS, commit
             LET ex == Execute(NewConnection, p, TRUE)
             IN  [ret |-> TRUE, conn |-> Commit(ex.conn), pg |-> p,
                  calls |-> tr1]

\* the `if not self.conn: connected = self.connect()` prologue of every
\* History Store operation
LazyConnect(c, p, tr) ==
    IF c = None THEN connect(c, p, tr)
    ELSE [ret |-> TRUE, conn |-> c, pg |-> p, calls |-> tr]

\* Database.save_prediction(...): ret is None or {id, timestamp}
save_prediction(c, p, tr, image_name, prediction, confidence, top_5) ==
    LET cn == LazyConnect(c, p, Append(tr, "save_prediction"))
    IN  IF ~cn.ret
        THEN [ret |-> None, conn |-> cn.conn, pg |-> cn.pg, calls |-> cn.calls]
        ELSE LET ex == Execute(cn.conn, cn.pg, TRUE)
             IN  IF ex.raised
                 THEN [ret |-> None, conn |-> Rollback(ex.conn), pg |-> cn.pg,
                       calls |-> cn.calls]
                 ELSE LET row == [id                |-> cn.pg.next_id,
                                  \* DEFAULT now(): the transaction's start
                                  timestamp         |-> ex.conn.txn_start,
                                  image_name        |-> image_name,
                                  prediction        |-> prediction,
                                  confidence        |-> PgReal(confidence),
                                  top_5_predictions |-> JsonDumps(top_5)]
                      IN  [ret   |-> [id |-> row.id,
                                      timestamp |-> IsoFormat(row.timestamp)],
                           conn  |-> Commit(ex.conn),
                           \* the clock has moved on when the commit returns
                           pg    |-> [cn.pg EXCEPT !.rows = Append(@, row),
                                                   !.next_id = @ + 1,
                                                   !.now = @ + 1],
                           calls |-> cn.calls]

\* ORDER BY timestamp DESC
RECURSIVE OrderByTimestampDesc(_)
OrderByTimestampDesc(rows) ==
    IF rows = <<>> THEN <<>>
    ELSE LET k == CHOOSE i \in 1..Len(rows) :
                      \A j \in 1..Len(rows) :
                          \/ rows[i].timestamp > rows[j].timestamp
                          \/ rows[i].timestamp = rows[j].timestamp /\ i <= j
             rest == [j \in 1..(Len(rows) - 1) |->
                          IF j < k THEN rows[j] ELSE rows[j + 1]]
         IN  <<rows[k]>> \o OrderByTimestampDesc(rest)

\* LIMIT %s OFFSET %s over the ordered rows
LimitOffset(rows, limit, offset) ==
    SubSeq(rows, offset + 1, Min(Len(rows), offset + limit))

\* one row of the cursor as the dict get_history appends
HistoryEntry(row) ==
    [id                |-> row.id,
     timestamp         |-> IsoFormat(row.timestamp),
     image_name        |-> row.image_name,
     prediction        |-> row.prediction,
     confidence        |-> row.confidence,
     top_5_predictions |-> JsonLoads(row.top_5_predictions)]

\* Database.get_history(limit, offset): ret is the list of dicts
Database_get_history(c, p, tr, limit, offset) ==
    LET cn == LazyConnect(c, p, Append(tr, "get_history"))
    IN  IF ~cn.ret
        THEN [ret |-> <<>>, conn |-> cn.conn, pg |-> cn.pg, calls |-> cn.calls]
        ELSE \* the server rejects a negative LIMIT or OFFSET
             LET ex == Execute(cn.conn, cn.pg, limit >= 0 /\ offset >= 0)
             IN  IF ex.raised
                 THEN \* except: no rollback here
                      [ret |-> <<>>, conn |-> ex.conn, pg |-> cn.pg,
                       calls |-> cn.calls]
                 ELSE LET results == LimitOffset(
                              OrderByTimestampDesc(cn.pg.rows), limit, offset)
                      IN  [ret   |-> [i \in 1..Len(results) |->
                                         HistoryEntry(results[i])],
                           conn  |-> ex.conn, pg |-> cn.pg, calls |-> cn.calls]

\* Database.clear_history(): ret is cursor.rowcount of the DELETE
Database_clear_history(c, p, tr) ==
    LET cn == LazyConnect(c, p, Append(tr, "clear_history"))
    IN  IF ~cn.ret
        THEN [ret |-> 0, conn |-> cn.conn, pg |-> cn.pg, calls |-> cn.calls]
        ELSE LET ex == Execute(cn.conn, cn.pg, TRUE)
             IN  IF ex.raised
                 THEN [ret |-> 0, conn |-> Rollback(ex.conn), pg |-> cn.pg,
                       calls |-> cn.calls]
                 ELSE [ret   |-> Len(cn.pg.rows),
                       conn  |-> Commit(ex.conn),
                       pg    |-> [cn.pg EXCEPT !.rows = <<>>],
                       calls |-> cn.calls]

-----------------------------------------------------------------------------
(* HTTP Surface: pure parts *)

\* request.form.get('top_k', 5, type=int)
FormTopK(form) == IF form.given THEN form.value ELSE DEFAULT_TOP_K

\* lines 408-414
MaxK(nc, labels) ==
    IF nc # NoneInt THEN nc
    ELSE IF labels # None THEN Len(labels)
    ELSE DEFAULT_NUM_CLASSES

\* mutant: the lower clamp is forgotten
ClampTopKNoFloor(top_k, max_k) == Min(top_k, max_k)

\* top_k = min(max(1, top_k), max_k)
ClampTopK(top_k, max_k) == Min(Max(1, top_k), max_k)

\* mutant: the size ceiling itself is turned away
FileTooLargeInclusive(file_size) == file_size >= MAX_IMAGE_SIZE

\* file_size > MAX_IMAGE_SIZE
FileTooLarge(file_size) == file_size > MAX_IMAGE_SIZE

ErrorBody(msg) == [success |-> FALSE, error |-> msg]

\* mutant: the database is left out of the verdict
HealthStatusIgnoresDb(model_ok, labels_ok, db_ok) ==
    IF model_ok /\ labels_ok THEN "healthy" ELSE "unhealthy"

\* the status line of the health payload
HealthStatus(model_ok, labels_ok, db_ok) ==
    IF model_ok /\ labels_ok /\ db_ok THEN "healthy" ELSE "unhealthy"

\* mutant: a failed history write replaces the result by an error
PersistHistoryPropagates(result, c, p, tr, filename) ==
    LET cn == LazyConnect(c, p, tr)
        sv == save_prediction(cn.conn, cn.pg, cn.calls, filename,
                              result.predictions[1].label,
                              result.predictions[1].confidence,
                              result.predictions)
    IN  IF result.success /\ result.predictions # <<>>
        THEN [result |-> IF sv.ret # None
                         THEN [history_record |-> sv.ret] @@ result
                         ELSE ErrorBody("could not persist history"),
              conn |-> sv.conn, pg |-> sv.pg, calls |-> sv.calls]
        ELSE [result |-> result, conn |-> cn.conn, pg |-> cn.pg,
              calls |-> cn.calls]

\* lines 446-467: best-effort persistence of a result.
\* [result, conn, pg, calls]
PersistHistory(result, c, p, tr, filename) ==
    LET cn == LazyConnect(c, p, tr)   \* its return value is ignored
    IN  IF result.success /\ result.predictions # <<>>
        THEN LET top == result.predictions[1]
                 sv  == save_prediction(cn.conn, cn.pg, cn.calls, filename,
                                        top.label, top.confidence,
                                        result.predictions)
             IN  [result |-> IF sv.ret # None
                             THEN [history_record |-> sv.ret] @@ result
                             ELSE result,
                  conn |-> sv.conn, pg |-> sv.pg, calls |-> sv.calls]
        ELSE [result |-> result, conn |-> cn.conn, pg |-> cn.pg,
              calls |-> cn.calls]

\* lines 469-488: the log line reads result['predictions'][0] before the
\* result is returned; what it raises becomes the handler's 500
FinishPredict(result) ==
    IF "predictions" \notin DOMAIN result
    THEN [status |-> 500, body |-> ErrorBody("'predictions'")]
    ELSE IF result.predictions = <<>>
    THEN [status |-> 500, body |-> ErrorBody("list index out of range")]
    ELSE [status |-> 200, body |-> result]

\* predict_endpoint() as a function of the request and the state:
\* [status, body, conn, pg, calls]
PredictEndpoint(req, sort_ties, m, labels, nc, c, p) ==
    LET keep(st, msg) == [status |-> st, body |-> ErrorBody(msg),
                          conn |-> c, pg |-> p, calls |-> <<>>]
    IN  IF m = None THEN keep(500, "Model not loaded")
        ELSE IF ~req.has_image THEN keep(400, "No image file provided")
        ELSE IF req.filename = "" THEN keep(400, "Empty filename")
        ELSE IF FileTooLarge(req.file_size) THEN keep(400, "File too large")
        ELSE LET top_k == ClampTopK(FormTopK(req.form), MaxK(nc, labels))
             IN  IF ~req.image.decodable
                 THEN \* preprocess_image re-raises: outer except
                      [keep(500, "cannot identify image file")
                           EXCEPT !.calls = <<"preprocess_image">>]
                 ELSE LET res == [filename |-> req.filename] @@
                                 predict(m, labels, nc, req.image, top_k,
                                         sort_ties)
                          ps  == PersistHistory(res, c, p,
                                     <<"preprocess_image", "predict">>,
                                     req.filename)
                          fin == FinishPredict(ps.result)
                      IN  [status |-> fin.status, body |-> fin.body,
                           conn |-> ps.conn, pg |-> ps.pg, calls |-> ps.calls]

-----------------------------------------------------------------------------
(* The environment and the requests the model draws from *)

LabelLists == {<<>>, <<"cat", "dog", "fox">>}

\* label files json.load reads as a list
ListedLabelFiles == {[kind |-> "list", names |-> l] : l \in LabelLists}

\* no file at LABELS_PATH, or one json.load rejects
BrokenLabelFiles == {[kind |-> "missing"], [kind |-> "malformed"]}

\* checkpoint files: cls_first is shape[0] of the first '...classifier...
\* .weight' tensor in key order, out the width of the final layer
Checkpoints ==
    {[kind |-> "missing",  cls_first |-> 0, out |-> 0],
     [kind |-> "plain",    cls_first |-> 4, out |-> 3],
     [kind |-> "wrapped",  cls_first |-> 2, out |-> 2],
     [kind |-> "plain",    cls_first |-> DEFAULT_NUM_CLASSES,
                           out |-> DEFAULT_NUM_CLASSES],
     [kind |-> "other",    cls_first |-> 0, out |-> 0],
     [kind |-> "module",   cls_first |-> 0, out |-> 2]}

\* uploads PIL decodes and the network accepts: the softmax levels repeat
\* over the output units. One image gives every class its own probability,
\* the other leaves two classes tied.
DistinctImage == [decodable |-> TRUE, fwd_raises |-> FALSE,
                  pattern |-> <<1, 3, 2>>]
TiedImage == [decodable |-> TRUE, fwd_raises |-> FALSE,
              pattern |-> <<2, 1, 1>>]

\* an upload PIL rejects, and one the forward pass fails on
BadImages ==
    {[decodable |-> FALSE, fwd_raises |-> FALSE, pattern |-> <<1>>],
     [decodable |-> TRUE,  fwd_raises |-> TRUE,  pattern |-> <<1>>]}

NoForm == [given |-> FALSE, value |-> 0]

TopKForms ==
    {NoForm}
    \cup {[given |-> TRUE, value |-> v] : v \in {0 - 2, 0, 1, 2, 100000}}

SortTies == {"by_index", "by_index_reversed"}

NoImage == [decodable |-> FALSE, fwd_raises |-> FALSE, pattern |-> <<1>>]

\* the requests the handler turns away before it reads top_k, then the
\* uploads of exactly MAX_IMAGE_SIZE bytes
PredictRequests ==
    {[endpoint |-> "POST /predict", has_image |-> h, filename |-> fn,
      file_size |-> sz, form |-> NoForm, image |-> NoImage] :
         <<h, fn, sz>> \in {<<FALSE, "", 0>>,
                           <<TRUE, "", 1>>,
                           <<TRUE, "a.jpg", MAX_IMAGE_SIZE + 1>>}}
    \cup
    {[endpoint |-> "POST /predict", has_image |-> TRUE, filename |-> "a.jpg",
      file_size |-> MAX_IMAGE_SIZE, form |-> f, image |-> i] :
         <<f, i>> \in (TopKForms \X {TiedImage})
                          \cup {<<NoForm, DistinctImage>>}}
    \cup
    {[endpoint |-> "POST /predict", has_image |-> TRUE, filename |-> "a.jpg",
      file_size |-> 1, form |-> NoForm, image |-> i] : i \in BadImages}

\* the (limit, offset) query strings of GET /history
Pages ==
    {<<DEFAULT_LIMIT, DEFAULT_OFFSET>>, <<1, DEFAULT_OFFSET>>,
     <<DEFAULT_LIMIT, 1>>, <<0 - 1, DEFAULT_OFFSET>>}

-----------------------------------------------------------------------------
(* Initial states *)

InitWith(label_files) ==
    /\ pc = "load_labels"
    /\ env \in [labels_file : label_files, checkpoint : Checkpoints,
                arch_ok : BOOLEAN, sort_ties : SortTies]
    /\ model = None
    /\ class_labels = None
    /\ num_classes = NoneInt
    /\ conn = None
    /\ \E up \in BOOLEAN :
           pg = [up |-> up, now |-> 1, rows |-> <<>>, next_id |-> 1]
    /\ request = None
    /\ response = None
    /\ calls = <<>>
    /\ exit_code = NoneInt

Init == InitWith(ListedLabelFiles)

InitBoot == InitWith(ListedLabelFiles \cup BrokenLabelFiles)

-----------------------------------------------------------------------------
(* The __main__ block *)

\* load_labels()
LoadLabels ==
    /\ pc = "load_labels"
    /\ LET r == load_labels(env.labels_file, num_classes)
       IN  /\ class_labels' = r.class_labels
           /\ num_classes' = r.num_classes
    /\ pc' = "load_model"
    /\ UNCHANGED <<env, model, conn, pg, request, response, calls, exit_code>>

\* if not load_model(): exit(1)
LoadModel ==
    /\ pc = "load_model"
    /\ LET r == load_model(env, model, num_classes)
       IN  /\ model' = r.model
           /\ num_classes' = r.num_classes
           /\ pc' = IF r.ret THEN "connect" ELSE "exited"
           /\ exit_code' = IF r.ret THEN exit_code ELSE 1
    /\ UNCHANGED <<env, class_labels, conn, pg, request, response, calls>>

\* mutant: a failed connection attempt ends the process
StartupConnectAborts ==
    /\ pc = "connect"
    /\ LET r == connect(conn, pg, <<>>)
       IN  /\ conn' = r.conn
           /\ pg' = r.pg
           /\ pc' = IF r.ret THEN "app_run" ELSE "exited"
           /\ exit_code' = IF r.ret THEN exit_code ELSE 1
    /\ UNCHANGED <<env, model, class_labels, num_classes, request, response,
                   calls>>

\* try: db.connect() except Exception: ...
StartupConnect ==
    /\ pc = "connect"
    /\ LET r == connect(conn, pg, <<>>)
       IN  /\ conn' = r.conn
           /\ pg' = r.pg
    /\ pc' = "app_run"
    /\ UNCHANGED <<env, model, class_labels, num_classes, request, response,
                   calls, exit_code>>

\* app.run(host='0.0.0.0', port=port, ...)
AppRun ==
    /\ pc = "app_run"
    /\ pc' = "serving"
    /\ UNCHANGED <<env, model, class_labels, num_classes, conn, pg, request,
                   response, calls, exit_code>>

-----------------------------------------------------------------------------
(* HTTP handlers *)

Serving == pc = "serving"

\* GET /health
health_check ==
    /\ Serving
    /\ LET model_ok  == model # None
           labels_ok == class_labels # None
           probe     == IF conn # None THEN Execute(conn, pg, TRUE)
                        ELSE [raised |-> TRUE, conn |-> conn]
           db_ok     == conn # None /\ ~probe.raised
           status    == HealthStatus(model_ok, labels_ok, db_ok)
       IN  /\ conn' = probe.conn
           /\ response' =
                  [status |-> IF status = "healthy" THEN 200 ELSE 503,
                   body   |-> [status        |-> status,
                               model_loaded  |-> model_ok,
                               labels_loaded |-> labels_ok,
                               db_connected  |-> db_ok]]
    /\ request' = [endpoint |-> "GET /health"]
    /\ calls' = <<>>
    /\ UNCHANGED <<pc, env, model, class_labels, num_classes, pg, exit_code>>

\* GET /info
model_info ==
    /\ Serving
    /\ response' =
           IF model = None
           THEN [status |-> 500, body |-> [error |-> "Model not loaded"]]
           ELSE [status |-> 200,
                 body   |-> [model_loaded     |-> TRUE,
                             num_classes      |-> num_classes,
                             labels_available |-> class_labels # None]]
    /\ request' = [endpoint |-> "GET /info"]
    /\ calls' = <<>>
    /\ UNCHANGED <<pc, env, model, class_labels, num_classes, conn, pg,
                   exit_code>>

\* POST /predict
predict_endpoint ==
    /\ Serving
    /\ pg.now <= MaxNow
    /\ \E req \in PredictRequests :
           LET r == PredictEndpoint(req, env.sort_ties, model, class_labels,
                                    num_classes, conn, pg)
           IN  /\ request' = req
               /\ response' = [status |-> r.status, body |-> r.body]
               /\ conn' = r.conn
               /\ pg' = r.pg
               /\ calls' = r.calls
    /\ UNCHANGED <<pc, env, model, class_labels, num_classes, exit_code>>

\* GET /history
get_history ==
    /\ Serving
    /\ \E page \in Pages :
           LET limit  == page[1]
               offset == page[2]
               cn == LazyConnect(conn, pg, <<>>)   \* return value ignored
               r == Database_get_history(cn.conn, cn.pg, cn.calls,
                                          limit, offset)
           IN  /\ request' = [endpoint |-> "GET /history", limit |-> limit,
                              offset |-> offset]
               /\ response' = [status |-> 200, body |-> r.ret]
               /\ conn' = r.conn
               /\ pg' = r.pg
               /\ calls' = r.calls
    /\ UNCHANGED <<pc, env, model, class_labels, num_classes, exit_code>>

\* DELETE /history
clear_history ==
    /\ Serving
    /\ LET cn == LazyConnect(conn, pg, <<>>)   \* return value ignored
           r  == Database_clear_history(cn.conn, cn.pg, cn.calls)
       IN  /\ response' = [status |-> 200,
                           body   |-> [message       |-> "History cleared",
                                       deleted_count |-> r.ret]]
           /\ conn' = r.conn
           /\ pg' = r.pg
           /\ calls' = r.calls
    /\ request' = [endpoint |-> "DELETE /history"]
    /\ UNCHANGED <<pc, env, model, class_labels, num_classes, exit_code>>

-----------------------------------------------------------------------------
(* The environment *)

\* the database becomes unreachable: the session the connection held is lost
DbDown ==
    /\ pc # "exited"
    /\ pg.up
    /\ pg' = [pg EXCEPT !.up = FALSE]
    /\ conn' = IF conn = None THEN conn ELSE [conn EXCEPT !.alive = FALSE]
    /\ UNCHANGED <<pc, env, model, class_labels, num_classes, request,
                   response, calls, exit_code>>

\* the database becomes reachable again
DbUp ==
    /\ pc # "exited"
    /\ ~pg.up
    /\ pg' = [pg EXCEPT !.up = TRUE]
    /\ UNCHANGED <<pc, env, model, class_labels, num_classes, conn, request,
                   response, calls, exit_code>>

-----------------------------------------------------------------------------
(* Specifications *)

Next ==
    \/ LoadLabels
    \/ LoadModel
    \/ StartupConnect
    \/ AppRun
    \/ health_check
    \/ model_info
    \/ predict_endpoint
    \/ get_history
    \/ clear_history
    \/ DbDown
    \/ DbUp

\* the service under every label file json.load reads
Spec == Init /\ [][Next]_vars

NextBoot ==
    \/ LoadLabels
    \/ LoadModel
    \/ StartupConnect
    \/ AppRun
    \/ health_check
    \/ model_info
    \/ DbDown
    \/ DbUp

\* start-up under every label file, the missing and the malformed included,
\* with the handlers that run no forward pass (a forward pass over the
\* default 1000 classes is beyond enumeration)
SpecBoot == InitBoot /\ [][NextBoot]_vars

-----------------------------------------------------------------------------
(* Vocabulary of the claims *)

Called(name) == \E i \in 1..Len(calls) : calls[i] = name

Handled(endpoint) == request # None /\ request.endpoint = endpoint

\* the step leaves a request to the endpoint as the last one handled
Handles(endpoint) == request' # None /\ request'.endpoint = endpoint

\* the request passes every check of the handler up to preprocessing
Accepted(req) ==
    /\ req.has_image
    /\ req.filename # ""
    /\ req.file_size <= 10 * 1024 * 1024
    /\ req.image.decodable

\* the PredictionResult the Inference Engine returns for the request
Inference(req) ==
    predict(model, class_labels, num_classes, req.image,
            ClampTopK(FormTopK(req.form), MaxK(num_classes, class_labels)),
            env.sort_ties)

InferenceSucceeds(req) ==
    /\ Accepted(req)
    /\ Inference(req).success
    /\ Inference(req).predictions # <<>>

-----------------------------------------------------------------------------
(* C1: a POST /predict whose inference succeeds with a non-empty            *)
(* predictions list is answered 200 with success:true and the full          *)
(* predictions list whether or not the history write succeeds; when the     *)
(* write fails (no row is added) the body is the persisted body without     *)
(* history_record.                                                          *)
C1_PersistenceFailureKeepsResponse ==
    [][ ( /\ Handles("POST /predict")
          /\ predict_endpoint
          /\ InferenceSucceeds(request') ) =>
            LET base == [filename |-> request'.filename] @@ Inference(request')
            IN  /\ response'.status = 200
                /\ response'.body.success
                /\ response'.body.predictions = Inference(request').predictions
                /\ IF pg'.rows = pg.rows
                   THEN response'.body = base
                   ELSE /\ "history_record" \in DOMAIN response'.body
                        /\ response'.body =
                               [history_record |->
                                    response'.body.history_record] @@ base
      ]_vars

\* a prediction answered 200 without history_record after both connection
\* attempts of the handler failed
C1_Witness ==
    /\ Handled("POST /predict")
    /\ InferenceSucceeds(request)
    /\ Called("save_prediction")
    /\ conn = None
    /\ response.status = 200
    /\ "history_record" \notin DOMAIN response.body
    /\ Len(response.body.predictions) = 3

(* C2: a POST /predict rejected as a client input error (no image field,    *)
(* empty filename, more than 10 MiB) is answered 400, leaves the history    *)
(* table as it was and reaches neither preprocessing, inference nor         *)
(* save_prediction; an upload of exactly 10 MiB is not rejected as oversize.*)
C2_ClientErrorsChangeNothing ==
    [][ (Handles("POST /predict") /\ predict_endpoint) =>
            /\ ( \/ ~request'.has_image
                 \/ request'.filename = ""
                 \/ request'.file_size > 10 * 1024 * 1024 )
               => /\ response'.status = 400
                  /\ ~response'.body.success
                  /\ pg' = pg
                  /\ conn' = conn
                  /\ calls' = <<>>
            /\ ( /\ request'.has_image
                 /\ request'.filename # ""
                 /\ request'.file_size = 10 * 1024 * 1024 )
               => /\ response'.status # 400
                  /\ calls'[1] = "preprocess_image"
      ]_vars

\* an oversize upload turned away while the table holds a record
C2_Witness ==
    /\ Handled("POST /predict")
    /\ request.file_size = 10 * 1024 * 1024 + 1
    /\ response.status = 400
    /\ calls = <<>>
    /\ Len(pg.rows) = 1

(* C3: a successful POST /predict with requested top_k = k returns exactly  *)
(* min(max(1, k), num_classes) predictions.                                 *)
C3_TopKClamped ==
    (Handled("POST /predict") /\ response.status = 200) =>
        LET k == IF request.form.given THEN request.form.value ELSE 5
            lo == IF k < 1 THEN 1 ELSE k
        IN  Len(response.body.predictions) =
                (IF lo < num_classes THEN lo ELSE num_classes)

\* top_k = 100000 over 3 classes answered with 3 predictions
C3_Witness ==
    /\ Handled("POST /predict")
    /\ request.form.given
    /\ request.form.value = 100000
    /\ response.status = 200
    /\ num_classes = 3
    /\ Len(response.body.predictions) = 3


(* C4: with the table holding the n records written since it was emptied,   *)
(* GET /history (limit >= n, offset 0) returns exactly those n records,     *)
(* most recently inserted first, each with the confidence and label of      *)
(* predictions[0] of the result that produced it. Stated for a connection   *)
(* that has been live all along (no outage).                                *)
C4_HistoryListsEveryRecord ==
    ( /\ Handled("GET /history")
      /\ request.limit >= Len(pg.rows)
      /\ request.offset = 0
      /\ conn # None
      /\ conn.alive ) =>
        LET n == Len(pg.rows)
        IN  /\ Len(response.body) = n
            /\ \A i \in 1..Len(response.body) :
                   LET rec == response.body[i]
                       row == pg.rows[n + 1 - i]
                       top == JsonLoads(row.top_5_predictions)[1]
                   IN  /\ rec.id = row.id
                       /\ rec.confidence = top.confidence
                       /\ rec.prediction = top.label

(* C5: DELETE /history returns deleted_count equal to the number of rows    *)
(* it removed, and the GET /history handled right after it returns an       *)
(* empty list.                                                              *)
C5_ClearThenEmpty ==
    [][ /\ (Handles("DELETE /history") /\ clear_history) =>
               response'.body.deleted_count = Len(pg.rows) - Len(pg'.rows)
        /\ ( /\ Handled("DELETE /history")
             /\ Handles("GET /history")
             /\ get_history ) =>
               response'.body = <<>>
      ]_vars

(* C6: GET /health answers 200 "healthy" exactly when model_loaded,         *)
(* labels_loaded and db_connected are all true, and 503 "unhealthy"         *)
(* otherwise; with the database unreachable (never connected, or the held   *)
(* connection failing its probe) it answers 503 whatever the model and the  *)
(* labels are.                                                              *)
C6_HealthReflectsAllThree ==
    [][ (Handles("GET /health") /\ health_check) =>
            LET b   == response'.body
                all == b.model_loaded /\ b.labels_loaded /\ b.db_connected
            IN  /\ b.model_loaded = (model # None)
                /\ b.labels_loaded = (class_labels # None)
                /\ all => (response'.status = 200 /\ b.status = "healthy")
                /\ ~all => (response'.status = 503 /\ b.status = "unhealthy")
                /\ (conn = None \/ ~conn.alive \/ ~pg.up) =>
                       /\ ~b.db_connected
                       /\ response'.status = 503
                       /\ b.status = "unhealthy"
      ]_vars

\* model and labels loaded, the held connection dead: 503
C6_Witness ==
    /\ Handled("GET /health")
    /\ response.status = 503
    /\ response.body.model_loaded
    /\ response.body.labels_loaded
    /\ ~response.body.db_connected
    /\ conn # None
    /\ ~conn.alive

(* C7: GET /history and DELETE /history answer 500 whenever the store       *)
(* operation behind them fails; here, whenever the database is unreachable. *)
C7_StoreErrorIs500 ==
    [][ ( /\ ~pg.up
          /\ \/ Handles("GET /history") /\ get_history
             \/ Handles("DELETE /history") /\ clear_history ) =>
            response'.status = 500
      ]_vars

(* C8: with the label file missing or malformed, start-up completes, /info  *)
(* reports labels_available:true and the labels are "Class {i}" entries     *)
(* whose count, and num_classes, is the class count inferred from the       *)
(* checkpoint when the loader can infer one (1000 otherwise). Stated for    *)
(* the checkpoints the loader accepts once it has inferred the count.       *)
C8_BrokenLabelsInferredCount ==
    ( /\ env.labels_file \in BrokenLabelFiles
      /\ pc \in {"connect", "app_run", "serving", "exited"}
      /\ load_model(env, None, NoneInt).ret ) =>
        LET n == InferNumClasses(env.checkpoint, NoneInt)
        IN  /\ pc # "exited"
            /\ num_classes = n
            /\ class_labels = [i \in 1..n |-> "Class " \o ToString(i - 1)]
            /\ Handled("GET /info") =>
                   /\ response.body.labels_available
                   /\ response.body.num_classes = n

(* C9: an inference error inside POST /predict reaches the client as a      *)
(* {success:false, error} payload carrying the inference error message,     *)
(* and no history record is written.                                        *)
C9_InferenceErrorReachesClient ==
    ( /\ Handled("POST /predict")
      /\ Accepted(request)
      /\ ~Inference(request).success ) =>
        /\ ~response.body.success
        /\ response.body.error = Inference(request).error
        /\ ~Called("save_prediction")

(* C10: start-up runs load labels, load model, connection attempt, serve,   *)
(* in that order; a failed model load exits with a non-zero status and      *)
(* nothing is ever served; a failed connection attempt does not stop the    *)
(* start-up, and the health check of the degraded server reports            *)
(* db_connected false.                                                      *)
C10_StartupOrder ==
    [][ /\ pc' # pc =>
               <<pc, pc'>> \in {<<"load_labels", "load_model">>,
                                <<"load_model", "connect">>,
                                <<"load_model", "exited">>,
                                <<"connect", "app_run">>,
                                <<"app_run", "serving">>}
        /\ pc = "load_labels" => (model = None /\ conn = None)
        /\ pc' = "load_model" => (class_labels' # None /\ conn' = None)
        /\ (pc = "load_model" /\ pc' # pc) =>
               /\ (pc' = "exited") = ~load_model(env, model, num_classes).ret
               /\ pc' = "exited" => exit_code' = 1
               /\ pc' = "connect" => model' # None
        /\ pc' = "exited" => (request' = None /\ exit_code' # 0)
        /\ pc' # "exited" => exit_code' = NoneInt
        /\ request' # None => pc' = "serving"
        /\ (conn = None /\ Handles("GET /health") /\ health_check) =>
               (~response'.body.db_connected /\ response'.status = 503)
      ]_vars

\* the server serves although no connection could be made at start-up
C10_Witness ==
    /\ pc = "serving"
    /\ conn = None
    /\ ~pg.up
    /\ Handled("GET /health")
    /\ response.body.model_loaded
    /\ ~response.body.db_connected

(* C11: load_model() reports failure only when the architecture could not  *)
(* be instantiated; with the architecture built it reports success, and     *)
(* start-up goes on with a usable model, whatever the checkpoint is         *)
(* (missing, unreadable, unrecognized, weights not applicable).             *)
C11_LoadFailsOnlyOnArchitecture ==
    (pc \notin {"load_labels", "load_model"} /\ env.arch_ok) =>
        /\ pc # "exited"
        /\ model # None
        /\ load_model(env, None, num_classes).ret

(* C12: the handling of one HTTP request (POST /predict, GET /history,     *)
(* DELETE /history) makes at most one database connection attempt, also     *)
(* when the database is unreachable.                                        *)
C12_OneConnectionAttemptPerRequest ==
    Cardinality({i \in 1..Len(calls) : calls[i] = "connect"}) <= 1

\* the probability vector behind the answered prediction
AnsweredProbs == Softmax(request.image, model.out)

\* the classes the answered prediction left out
LeftOut ==
    {c \in 0..(model.out - 1) :
        \A j \in 1..Len(response.body.predictions) :
            response.body.predictions[j].class_id # c}

(* C13 (as stated): predict() returns the top_k classes of highest          *)
(* probability in descending order of probability, and among classes of     *)
(* equal probability the lower class index comes first and is the one kept  *)
(* when a tie straddles the top_k cut-off.                                  *)
C13_TiesByLowerIndex ==
    (Handled("POST /predict") /\ response.status = 200) =>
        LET ps == response.body.predictions
        IN  /\ \A i, j \in 1..Len(ps) :
                   i < j =>
                       \/ ps[i].confidence > ps[j].confidence
                       \/ /\ ps[i].confidence = ps[j].confidence
                          /\ ps[i].class_id < ps[j].class_id
            /\ \A c \in LeftOut : \A j \in 1..Len(ps) :
                   \/ AnsweredProbs[c + 1] < ps[j].confidence
                   \/ /\ AnsweredProbs[c + 1] = ps[j].confidence
                      /\ ps[j].class_id < c

(* C13 (amended): predict() returns top_k distinct classes, each with its   *)
(* own probability, in non-increasing order of probability, and no class    *)
(* left out has a higher probability than a class returned; the order       *)
(* among classes of equal probability is not fixed.                         *)
C13_TopKDescending ==
    (Handled("POST /predict") /\ response.status = 200) =>
        LET ps == response.body.predictions
        IN  /\ \A j \in 1..Len(ps) :
                   /\ ps[j].class_id \in 0..(model.out - 1)
                   /\ ps[j].confidence = AnsweredProbs[ps[j].class_id + 1]
            /\ \A i, j \in 1..Len(ps) :
                   i < j => /\ ps[i].confidence >= ps[j].confidence
                            /\ ps[i].class_id # ps[j].class_id
            /\ \A c \in LeftOut : \A j \in 1..Len(ps) :
                   AnsweredProbs[c + 1] <= ps[j].confidence

\* classes 1 and 2 tie across the cut-off of top_k = 2 and the higher index
\* is the one returned
C13_Witness ==
    /\ Handled("POST /predict")
    /\ response.status = 200
    /\ request.image = TiedImage
    /\ request.form.given
    /\ request.form.value = 2
    /\ Len(response.body.predictions) = 2
    /\ response.body.predictions[1].class_id = 0
    /\ response.body.predictions[2].class_id = 2
    /\ AnsweredProbs[2] = AnsweredProbs[3]

(* C14: when the label file lists a number of classes different from the   *)
(* one inferred from the checkpoint's classifier tensor, the service still  *)
(* starts, the model's final layer has the checkpoint's size, and the       *)
(* labels and num_classes are those of the label file. Stated for           *)
(* state-dict checkpoints whose inferred count is the width of their final  *)
(* layer.                                                                   *)
C14_MismatchKeepsCheckpointLayer ==
    ( /\ pc \notin {"load_labels", "load_model"}
      /\ env.arch_ok
      /\ env.labels_file.kind = "list"
      /\ env.checkpoint.kind \in {"plain", "wrapped"}
      /\ env.checkpoint.cls_first = env.checkpoint.out
      /\ InferNumClasses(env.checkpoint, NoneInt)
             # Len(env.labels_file.names) ) =>
        /\ pc # "exited"
        /\ model.out = InferNumClasses(env.checkpoint, NoneInt)
        /\ num_classes = Len(env.labels_file.names)
        /\ class_labels = env.labels_file.names

\* the step runs the named History Store operation
Invokes(name) == \E i \in 1..Len(calls') : calls'[i] = name

(* C15: a History Store operation invoked while no live connection exists   *)
(* (never connected, or the connection held is no longer usable) attempts   *)
(* to connect before running; when the database cannot be reached it        *)
(* returns its neutral result without raising, and when the database is     *)
(* reachable the invocation connects and succeeds.                          *)
C15_LazyReconnect ==
    [][ ( /\ conn = None \/ ~conn.alive
          /\ \/ Handles("GET /history") /\ get_history
             \/ Handles("DELETE /history") /\ clear_history
             \/ /\ Handles("POST /predict")
                /\ predict_endpoint
                /\ Invokes("save_prediction") ) =>
            /\ Invokes("connect")
            /\ ~pg.up =>
                   /\ pg' = pg
                   /\ Invokes("get_history") =>
                          (response'.status = 200 /\ response'.body = <<>>)
                   /\ Invokes("clear_history") =>
                          /\ response'.status = 200
                          /\ response'.body.deleted_count = 0
                   /\ Invokes("save_prediction") =>
                          /\ response'.status = 200
                          /\ "history_record" \notin DOMAIN response'.body
            /\ pg.up =>
                   /\ conn' # None
                   /\ conn'.alive
                   /\ (Invokes("get_history") /\ request'.limit >= 1
                           /\ request'.offset = 0) =>
                          Len(response'.body) =
                              Min(request'.limit, Len(pg.rows))
                   /\ Invokes("clear_history") =>
                          /\ pg'.rows = <<>>
                          /\ response'.body.deleted_count = Len(pg.rows)
                   /\ Invokes("save_prediction") =>
                          /\ "history_record" \in DOMAIN response'.body
                          /\ Len(pg'.rows) = Len(pg.rows) + 1
      ]_vars

====
